---- MODULE Spec2Model ----
(***************************************************************************)
(* Model of the authentication / user-provisioning layer:                  *)
(*   src/src/services/firestore/authService.ts  (signUp, signIn,           *)
(*       signOutUser, getCurrentUser, updateUserProfile)                   *)
(*   src/unnamed/part_001  (INITIAL_USERS, createInitialUser,              *)
(*       setupInitialUsers)                                                *)
(*   src/unnamed/part_002  (security rules of the users collection)        *)
(* One caller issues the calls one after another (cooperative, single      *)
(* threaded); the fire-and-forget write of signIn completes at any time.   *)
(***************************************************************************)
EXTENDS Integers, Sequences, FiniteSets, TLC

(***************************************************************************)
(* Bounds of the model.                                                    *)
(***************************************************************************)
\* top-level calls the caller issues in one behaviour
MaxCalls == 3
\* fire-and-forget writes that may be in flight at once
MaxPendingWrites == 1
MaxWords == 3

(***************************************************************************)
(* JavaScript values.  Strings are TLA+ strings; the strings the code      *)
(* searches or splits carry their characters in Chars.                     *)
(***************************************************************************)
Null == "<null>"
Undefined == "<undefined>"
NoDoc == [exists |-> FALSE, id |-> Undefined, name |-> Undefined, email |-> Undefined,
          role |-> Undefined, createdAt |-> Undefined]

Chars(s) ==
  CASE s = "admin@aspcranes.com" ->
         <<"a","d","m","i","n","@","a","s","p","c","r","a","n","e","s",".","c","o","m">>
    [] s = "john@aspcranes.com" ->
         <<"j","o","h","n","@","a","s","p","c","r","a","n","e","s",".","c","o","m">>
    [] s = "sara@aspcranes.com" ->
         <<"s","a","r","a","@","a","s","p","c","r","a","n","e","s",".","c","o","m">>
    [] s = "mike@aspcranes.com" ->
         <<"m","i","k","e","@","a","s","p","c","r","a","n","e","s",".","c","o","m">>
    [] s = "ops@b.co" -> <<"o","p","s","@","b",".","c","o">>
    [] s = "admin" -> <<"a","d","m","i","n">>
    [] s = "sales" -> <<"s","a","l","e","s">>
    [] s = "ops" -> <<"o","p","s">>
    [] s = "manager" -> <<"m","a","n","a","g","e","r">>
    [] s = "john" -> <<"j","o","h","n">>
    [] s = "sara" -> <<"s","a","r","a">>
    [] s = "mike" -> <<"m","i","k","e">>
    [] s = "@" -> <<"@">>
    [] s = "ad" -> <<"a","d">>
    [] s = "min" -> <<"m","i","n">>
    [] s = "@x" -> <<"@","x">>
    [] s = "" -> <<>>

KnownStrings ==
  {"admin@aspcranes.com", "john@aspcranes.com", "sara@aspcranes.com",
   "mike@aspcranes.com", "ops@b.co", "admin", "sales", "ops", "manager",
   "john", "sara", "mike", "@", "ad", "min", "@x", ""}

\* the string whose characters are cs
Str(cs) == CHOOSE s \in KnownStrings : Chars(s) = cs

\* String.prototype.includes, on the characters
IncludesChars(cs, ps) ==
  \E i \in 0..(Len(cs) - Len(ps)) : SubSeq(cs, i + 1, i + Len(ps)) = ps

\* String.prototype.includes
Includes(s, pat) == IncludesChars(Chars(s), Chars(pat))

\* s.split('@')[0]: the characters before the first '@', all of s without one
SplitAt0(s) ==
  LET cs == Chars(s)
      at == {i \in 1..Len(cs) : cs[i] = "@"}
      first == IF at = {} THEN Len(cs) + 1
               ELSE CHOOSE i \in at : \A j \in at : i <= j
  IN Str(SubSeq(cs, 1, first - 1))

\* JavaScript truthiness of a string-or-null value
Truthy(v) == v # Null /\ v # Undefined /\ v # ""

Roles == {"admin", "sales_agent", "operations_manager", "operator"}

\* variant: 'sales' is tested before 'admin'
RoleOfCharsSalesFirst(cs) ==
  IF cs = <<>> THEN "operator"
  ELSE IF IncludesChars(cs, Chars("sales")) THEN "sales_agent"
  ELSE IF IncludesChars(cs, Chars("admin")) THEN "admin"
  ELSE IF IncludesChars(cs, Chars("ops")) \/ IncludesChars(cs, Chars("manager"))
    THEN "operations_manager"
  ELSE "operator"

\* 14-20 for an email that is a string, given by its characters
RoleOfChars(cs) ==
  IF cs = <<>> THEN "operator"
  ELSE IF IncludesChars(cs, Chars("admin")) THEN "admin"
  ELSE IF IncludesChars(cs, Chars("sales")) THEN "sales_agent"
  ELSE IF IncludesChars(cs, Chars("ops")) \/ IncludesChars(cs, Chars("manager"))
    THEN "operations_manager"
  ELSE "operator"

\* 13-21
determineRoleFromEmail(email) ==
  IF email = Null \/ email = Undefined THEN "operator" ELSE RoleOfChars(Chars(email))


(***************************************************************************)
(* The identity provider's accounts.  The provider gives every account an  *)
(* opaque uid; an account's email never changes.                           *)
(***************************************************************************)
INITIAL_USERS ==
  << [email |-> "admin@aspcranes.com", name |-> "Admin User", role |-> "admin"],
     [email |-> "john@aspcranes.com", name |-> "John Sales", role |-> "sales_agent"],
     [email |-> "sara@aspcranes.com", name |-> "Sara Manager", role |-> "operations_manager"],
     [email |-> "mike@aspcranes.com", name |-> "Mike Operator", role |-> "operator"] >>

Uids == {"u1", "u2", "u3", "u4", "u5"}

EmailOf(uid) ==
  CASE uid = "u1" -> "admin@aspcranes.com"
    [] uid = "u2" -> "john@aspcranes.com"
    [] uid = "u3" -> "sara@aspcranes.com"
    [] uid = "u4" -> "mike@aspcranes.com"
    [] uid = "u5" -> "ops@b.co"

Emails == {EmailOf(u) : u \in Uids}
UidOf(email) == CHOOSE u \in Uids : EmailOf(u) = email

NoAccount == [exists |-> FALSE, displayName |-> Null]

\* provider error codes the model draws from; the last one is mapped by no case
AuthErrorCodes ==
  {"auth/invalid-credential", "auth/user-not-found", "auth/wrong-password",
   "auth/too-many-requests", "auth/user-disabled", "auth/network-request-failed"}

(***************************************************************************)
(* State.                                                                  *)
(***************************************************************************)
VARIABLES
  authInit,          \* lib/firebase exported a non-null auth
  dbInit,            \* lib/firebase exported a non-null db
  accounts,          \* provider: uid -> [exists, displayName]
  currentUser,       \* provider: auth.currentUser (a uid or Null)
  store,             \* users collection: uid -> document or NoDoc
  explicitAuthAction,   \* sessionStorage 'explicit-auth-action'
  userAuthenticated,    \* sessionStorage 'user-authenticated-this-session'
  persistentAuth,    \* client-side persistent cache (a user or Null record)
  rateLimited,       \* localStorage 'user-setup-rate-limited'
  pc,                \* position of the signIn call in flight, or "idle"
  si,                \* locals of the current / last signIn call
  trace,             \* external calls the current / last signIn issued, in order
  siRet,             \* what the last signIn returned or threw
  bgWrites,          \* fire-and-forget setDoc calls still in flight
  seedIdx,           \* setupInitialUsers: entry of the for loop, 0 when not running
  seedRet,           \* outcome of the last setupInitialUsers run
  seedLog,           \* what the current / last run did with each entry it reached
  out,               \* the last call issued; for the atomic ones also its outcome
  calls,             \* top-level calls issued so far
  roleIn,            \* an email handed to determineRoleFromEmail on its own
  roleOut            \* the role it returned, "unset" before the call

vars == <<authInit, dbInit, accounts, currentUser, store, explicitAuthAction,
          userAuthenticated, persistentAuth, rateLimited, pc, si, trace, siRet,
          bgWrites, seedIdx, seedRet, seedLog, roleIn, roleOut, out, calls>>

NoUser == [id |-> Undefined, name |-> Undefined, email |-> Undefined, role |-> Undefined]
NoRet == [kind |-> "none", user |-> NoUser, err |-> ""]
NoSi == [email |-> Null, uid |-> Null, code |-> Null, read |-> "none", write |-> "none", bg |-> "none"]
NoOut == [op |-> "none", arg |-> Null, updates |-> NoUser, kind |-> "none", user |-> NoUser,
          err |-> ""]

Ok(user) == [kind |-> "ok", user |-> user, err |-> ""]
Err(e) == [kind |-> "error", user |-> NoUser, err |-> e]

\* the record of a call in out: the call, its argument and how it ended
Result(op, arg, r) ==
  [op |-> op, arg |-> arg, updates |-> NoUser, kind |-> r.kind, user |-> r.user,
   err |-> r.err]

\* the record of an updateUserProfile call, which also keeps the partial given
UpdateResult(userId, updates, r) ==
  [Result("updateUserProfile", userId, r) EXCEPT !.updates = updates]

InitMain ==
  /\ authInit \in BOOLEAN
  /\ dbInit \in BOOLEAN
  /\ accounts = [u \in Uids |-> NoAccount]
  /\ currentUser = Null
  /\ store = [u \in Uids |-> NoDoc]
  /\ explicitAuthAction = FALSE
  /\ userAuthenticated = FALSE
  /\ persistentAuth = NoUser
  /\ rateLimited = FALSE
  /\ pc = "idle"
  /\ si = NoSi
  /\ trace = <<>>
  /\ siRet = NoRet
  /\ bgWrites = <<>>
  /\ seedIdx = 0
  /\ seedRet = "none"
  /\ seedLog = <<>>
  /\ out = NoOut
  /\ calls = 0

NoRoleInput == [isNull |-> TRUE, words |-> <<>>]

Init ==
  /\ InitMain
  /\ roleIn = NoRoleInput
  /\ roleOut = "unset"

\* the caller is between calls and may issue another one
Idle == pc = "idle" /\ seedIdx = 0 /\ calls < MaxCalls

(***************************************************************************)
(* Document store: the SDK calls and the rules of users/{userId}.          *)
(***************************************************************************)
Doc(id, name, email, role, createdAt) ==
  [exists |-> TRUE, id |-> id, name |-> name, email |-> email, role |-> role,
   createdAt |-> createdAt]

\* a full document as signUp, signIn and the seeder write it
UserDoc(u) == Doc(u.id, u.name, u.email, u.role, "serverTimestamp")

\* rules helper isAdmin(): the requesting principal's own document has role 'admin'
isAdmin(auth) == /\ auth # Null
                 /\ store[auth].exists
                 /\ store[auth].role = "admin"

\* match /users/{userId}: allow read
ReadAllowed == currentUser # Null

\* match /users/{userId}: allow write / create, update, delete
WriteAllowed(auth, userId) == auth # Null /\ (auth = userId \/ isAdmin(auth))

\* safeDoc: null without db
safeDoc(uid) == IF ~dbInit THEN Null ELSE uid

\* setDoc(ref, data): replaces the document
SetDoc(st, uid, data) == [st EXCEPT ![uid] = data]


(***************************************************************************)
(* signIn (authService.ts 76-214).  One action per suspension point.       *)
(***************************************************************************)
\* variant: the display name is never consulted
SynthNameNoDisplayName(uid) ==
  LET em == EmailOf(uid)
  IN IF em # Null /\ Truthy(SplitAt0(em)) THEN SplitAt0(em) ELSE "User"

\* name: firebaseUser.displayName || firebaseUser.email?.split('@')[0] || 'User'
SynthName(uid) ==
  LET dn == accounts[uid].displayName
      em == EmailOf(uid)
  IN IF Truthy(dn) THEN dn
     ELSE IF em # Null /\ Truthy(SplitAt0(em)) THEN SplitAt0(em)
     ELSE "User"

\* the user built from the Principal alone (122-127, 154-162, 264-270, 288-296)
SynthUser(uid) ==
  [id |-> uid,
   name |-> SynthName(uid),
   email |-> IF Truthy(EmailOf(uid)) THEN EmailOf(uid) ELSE "",
   role |-> determineRoleFromEmail(EmailOf(uid))]

\* variant: the role is inferred from the email although a document was read
FoundUserInferred(uid, userData) ==
  [id |-> uid, name |-> userData.name, email |-> userData.email,
   role |-> determineRoleFromEmail(EmailOf(uid))]

\* the user built from the stored document (109-114, 278-283, 324-329)
FoundUser(uid, userData) ==
  [id |-> uid, name |-> userData.name, email |-> userData.email, role |-> userData.role]

\* variant: the case 'auth/user-disabled' is missing from the switch
ErrorMessageNoDisabled(code) ==
  CASE code = "auth/invalid-credential" ->
         "Invalid email or password. Please check your credentials and try again."
    [] code = "auth/user-not-found" -> "No account found with this email address."
    [] code = "auth/wrong-password" -> "Incorrect password. Please try again."
    [] code = "auth/too-many-requests" ->
         "Too many failed login attempts. Please try again later."
    [] OTHER -> "An error occurred during sign in. Please try again."

\* the switch of the outer catch (199-212)
ErrorMessage(code) ==
  CASE code = "auth/invalid-credential" ->
         "Invalid email or password. Please check your credentials and try again."
    [] code = "auth/user-not-found" -> "No account found with this email address."
    [] code = "auth/wrong-password" -> "Incorrect password. Please try again."
    [] code = "auth/too-many-requests" ->
         "Too many failed login attempts. Please try again later."
    [] code = "auth/user-disabled" ->
         "This account has been disabled. Please contact support."
    [] OTHER -> "An error occurred during sign in. Please try again."

\* the outer catch: signIn throws the mapped message
SignInThrow(code, tr) ==
  /\ siRet' = Err(ErrorMessage(code))
  /\ trace' = tr
  /\ pc' = "idle"

\* variant: the provider is called before the marker is written
SignInBeginMarkerLate(email) ==
  /\ Idle
  /\ Len(bgWrites) < MaxPendingWrites
  /\ calls' = calls + 1
  /\ explicitAuthAction' = TRUE
  /\ si' = [NoSi EXCEPT !.email = email]
  /\ bgWrites' = [i \in 1..Len(bgWrites) |-> [bgWrites[i] EXCEPT !.mine = FALSE]]
  /\ IF ~authInit
       THEN SignInThrow(Undefined, <<"setItem:explicit-auth-action">>)
       ELSE /\ trace' = <<"signInWithEmailAndPassword", "setItem:explicit-auth-action">>
            /\ pc' = "authenticating"
            /\ siRet' = NoRet
  /\ out' = Result("signIn", email, NoRet)
  /\ UNCHANGED <<authInit, dbInit, accounts, currentUser, store, userAuthenticated,
                 persistentAuth, rateLimited, seedIdx, seedRet, seedLog, roleIn, roleOut>>

\* 76-87: marker, auth check, provider call issued
SignInBegin(email) ==
  /\ Idle
  /\ Len(bgWrites) < MaxPendingWrites
  /\ calls' = calls + 1
  /\ explicitAuthAction' = TRUE
  /\ si' = [NoSi EXCEPT !.email = email]
  /\ bgWrites' = [i \in 1..Len(bgWrites) |-> [bgWrites[i] EXCEPT !.mine = FALSE]]
  /\ IF ~authInit
       THEN SignInThrow(Undefined, <<"setItem:explicit-auth-action">>)
       ELSE /\ trace' = <<"setItem:explicit-auth-action", "signInWithEmailAndPassword">>
            /\ pc' = "authenticating"
            /\ siRet' = NoRet
  /\ out' = Result("signIn", email, NoRet)
  /\ UNCHANGED <<authInit, dbInit, accounts, currentUser, store, userAuthenticated,
                 persistentAuth, rateLimited, seedIdx, seedRet, seedLog, roleIn, roleOut>>

\* variant: the fallback does not mark the session as authenticated
DegradedNoMarker(siNew, tr) ==
  LET uid == siNew.uid
      user == SynthUser(uid)
      bgUserDocRef == safeDoc(uid)
  IN /\ IF bgUserDocRef # Null
          THEN /\ bgWrites' = Append(bgWrites, [uid |-> uid, data |-> UserDoc(user),
                                                mine |-> TRUE])
               /\ si' = [siNew EXCEPT !.bg = "pending"]
               /\ trace' = tr \o <<"setDoc:background">>
          ELSE /\ bgWrites' = bgWrites
               /\ si' = siNew
               /\ trace' = tr
     /\ userAuthenticated' = userAuthenticated
     /\ pc' = "saving_cache"
     /\ siRet' = siRet

\* 152-188: the fallback after the inner catch, up to the dynamic import
Degraded(siNew, tr) ==
  LET uid == siNew.uid
      user == SynthUser(uid)
      bgUserDocRef == safeDoc(uid)
  IN /\ IF bgUserDocRef # Null
          THEN /\ bgWrites' = Append(bgWrites, [uid |-> uid, data |-> UserDoc(user),
                                                mine |-> TRUE])
               /\ si' = [siNew EXCEPT !.bg = "pending"]
               /\ trace' = tr \o <<"setDoc:background",
                                   "setItem:user-authenticated-this-session">>
          ELSE /\ bgWrites' = bgWrites
               /\ si' = siNew
               /\ trace' = tr \o <<"setItem:user-authenticated-this-session">>
     /\ userAuthenticated' = TRUE
     /\ pc' = "saving_cache"
     /\ siRet' = siRet

\* variant: the inner catch rethrows, so the outer catch fails the sign-in
InnerCatchRethrow(siNew, tr, code) ==
  /\ SignInThrow(code, tr)
  /\ si' = siNew
  /\ UNCHANGED <<bgWrites, userAuthenticated>>

\* 147-150: what the inner catch does with an error thrown inside the inner try
InnerCatch(siNew, tr, code) == Degraded(siNew, tr)

\* 87-88: the provider answers
SignInAuthResult ==
  /\ pc = "authenticating"
  /\ \/ /\ accounts[UidOf(si.email)].exists
        /\ currentUser' = UidOf(si.email)
        /\ si' = [si EXCEPT !.uid = UidOf(si.email)]
        /\ trace' = Append(trace, "getIdToken")
        /\ pc' = "token_refresh"
        /\ siRet' = siRet
     \/ /\ \E code \in AuthErrorCodes :
             /\ SignInThrow(code, trace)
             /\ si' = [si EXCEPT !.code = code]
        /\ UNCHANGED currentUser
  /\ UNCHANGED <<authInit, dbInit, accounts, store, explicitAuthAction, userAuthenticated,
                 persistentAuth, rateLimited, bgWrites, seedIdx, seedRet, seedLog, roleIn, roleOut, out, calls>>

\* 93-99: the token refresh answers; the read is issued
SignInTokenResult ==
  /\ pc = "token_refresh"
  /\ \/ /\ safeDoc(si.uid) # Null
        /\ trace' = trace \o <<"getIdToken:resolved", "getDoc">>
        /\ pc' = "profile_lookup"
        /\ UNCHANGED <<si, siRet, bgWrites, userAuthenticated>>
     \/ /\ safeDoc(si.uid) = Null
        /\ InnerCatch([si EXCEPT !.read = "noref"],
                      Append(trace, "getIdToken:resolved"), Undefined)
     \/ /\ SignInThrow("auth/network-request-failed", trace)
        /\ UNCHANGED <<si, bgWrites, userAuthenticated>>
  /\ UNCHANGED <<authInit, dbInit, accounts, currentUser, store, explicitAuthAction,
                 persistentAuth, rateLimited, seedIdx, seedRet, seedLog, roleIn, roleOut, out, calls>>

\* 99-130: the read answers
SignInReadResult ==
  /\ pc = "profile_lookup"
  /\ \/ /\ ReadAllowed
        /\ store[si.uid].exists
        /\ si' = [si EXCEPT !.read = "found"]
        /\ siRet' = Ok(FoundUser(si.uid, store[si.uid]))
        /\ pc' = "idle"
        /\ UNCHANGED <<trace, bgWrites, userAuthenticated>>
     \/ /\ ReadAllowed
        /\ ~store[si.uid].exists
        /\ si' = [si EXCEPT !.read = "missing"]
        /\ trace' = Append(trace, "setDoc")
        /\ pc' = "persisting"
        /\ UNCHANGED <<siRet, bgWrites, userAuthenticated>>
     \/ InnerCatch([si EXCEPT !.read = "failed"], trace, "unavailable")
  /\ UNCHANGED <<authInit, dbInit, accounts, currentUser, store, explicitAuthAction,
                 persistentAuth, rateLimited, seedIdx, seedRet, seedLog, roleIn, roleOut, out, calls>>

\* 132-145: the write of the missing document answers
SignInWriteResult ==
  /\ pc = "persisting"
  /\ \/ /\ WriteAllowed(currentUser, si.uid)
        /\ store' = SetDoc(store, si.uid, UserDoc(SynthUser(si.uid)))
        /\ si' = [si EXCEPT !.write = "ok"]
        /\ siRet' = Ok(SynthUser(si.uid))
        /\ pc' = "idle"
        /\ UNCHANGED <<trace, bgWrites, userAuthenticated>>
     \/ /\ InnerCatch([si EXCEPT !.write = "failed"], trace, "unavailable")
        /\ store' = store
  /\ UNCHANGED <<authInit, dbInit, accounts, currentUser, explicitAuthAction,
                 persistentAuth, rateLimited, seedIdx, seedRet, seedLog, roleIn, roleOut, out, calls>>

\* persistentAuth.savePersistentAuth: the user becomes the cached identity
savePersistentAuth(user) == persistentAuth' = user

\* persistentAuth.clearPersistentAuth: the cache is emptied
clearPersistentAuth == persistentAuth' = NoUser

\* 188-193: savePersistentAuth(user), then return user
SignInSaveCache ==
  /\ pc = "saving_cache"
  /\ savePersistentAuth(SynthUser(si.uid))
  /\ trace' = Append(trace, "savePersistentAuth")
  /\ siRet' = Ok(SynthUser(si.uid))
  /\ pc' = "idle"
  /\ UNCHANGED <<authInit, dbInit, accounts, currentUser, store, explicitAuthAction,
                 userAuthenticated, rateLimited, si, bgWrites, seedIdx, seedRet, seedLog, roleIn, roleOut, out,
                 calls>>

\* 168-178: a fire-and-forget setDoc settles; its outcome is only logged
BgWriteComplete(i) ==
  LET w == bgWrites[i]
      rest == SubSeq(bgWrites, 1, i - 1) \o SubSeq(bgWrites, i + 1, Len(bgWrites))
  IN /\ bgWrites' = rest
     /\ \/ /\ WriteAllowed(currentUser, w.uid)
           /\ store' = SetDoc(store, w.uid, w.data)
           /\ si' = IF w.mine THEN [si EXCEPT !.bg = "ok"] ELSE si
        \/ /\ store' = store
           /\ si' = IF w.mine THEN [si EXCEPT !.bg = "failed"] ELSE si
     /\ UNCHANGED <<authInit, dbInit, accounts, currentUser, explicitAuthAction,
                    userAuthenticated, persistentAuth, rateLimited, pc, trace, siRet,
                    seedIdx, seedRet, seedLog, roleIn, roleOut, out, calls>>


(***************************************************************************)
(* signUp, signOutUser, getCurrentUser, updateUserProfile: the caller      *)
(* awaits each of them to its end, so each is one action.                  *)
(***************************************************************************)
\* codes createUserWithEmailAndPassword / updateProfile fail with, besides
\* 'auth/email-already-in-use'
CreateErrorCodes == {"auth/too-many-requests", "auth/network-request-failed"}

SignUpInputs ==
  { [email |-> "ops@b.co", name |-> "Pat", role |-> "operator"],
    [email |-> "john@aspcranes.com", name |-> "Johnny", role |-> "admin"] }

\* 39-74
signUp(in) ==
  LET uid == UidOf(in.email)
      user == [id |-> uid, name |-> in.name, email |-> in.email, role |-> in.role]
  IN
  /\ Idle
  /\ calls' = calls + 1
  /\ \/ /\ ~authInit
        /\ out' = Result("signUp", in.email, Err("Firebase auth is not initialized"))
        /\ UNCHANGED <<accounts, currentUser, store>>
     \/ /\ authInit
        /\ accounts[uid].exists
        /\ out' = Result("signUp", in.email, Err("auth/email-already-in-use"))
        /\ UNCHANGED <<accounts, currentUser, store>>
     \/ /\ authInit
        /\ \E code \in CreateErrorCodes :
             out' = Result("signUp", in.email, Err(code))
        /\ UNCHANGED <<accounts, currentUser, store>>
     \/ \* account created, updateProfile(displayName) fails
        /\ authInit
        /\ ~accounts[uid].exists
        /\ accounts' = [accounts EXCEPT ![uid] = [exists |-> TRUE, displayName |-> Null]]
        /\ currentUser' = uid
        /\ \E code \in CreateErrorCodes :
             out' = Result("signUp", in.email, Err(code))
        /\ UNCHANGED store
     \/ \* account created and named, the document write fails or has no reference
        /\ authInit
        /\ ~accounts[uid].exists
        /\ accounts' = [accounts EXCEPT ![uid] = [exists |-> TRUE, displayName |-> in.name]]
        /\ currentUser' = uid
        /\ out' = Result("signUp", in.email,
                         IF safeDoc(uid) = Null THEN Err("Document reference is null")
                         ELSE Err("unavailable"))
        /\ UNCHANGED store
     \/ /\ authInit
        /\ ~accounts[uid].exists
        /\ safeDoc(uid) # Null
        /\ accounts' = [accounts EXCEPT ![uid] = [exists |-> TRUE, displayName |-> in.name]]
        /\ currentUser' = uid
        /\ WriteAllowed(uid, uid)
        /\ store' = SetDoc(store, uid, UserDoc(user))
        /\ out' = Result("signUp", in.email, Ok(user))
  /\ UNCHANGED <<authInit, dbInit, explicitAuthAction, userAuthenticated, persistentAuth,
                 rateLimited, pc, si, trace, siRet, bgWrites, seedIdx, seedRet, seedLog, roleIn, roleOut>>

\* variant: the marker and the cache are cleared only after the provider signed out
signOutUserClearAfter ==
  /\ Idle
  /\ calls' = calls + 1
  /\ explicitAuthAction' = TRUE
  /\ \/ /\ ~authInit
        /\ out' = Result("signOut", Null, [kind |-> "ok", user |-> NoUser, err |-> ""])
        /\ UNCHANGED <<currentUser, persistentAuth, userAuthenticated>>
     \/ /\ authInit
        /\ currentUser' = Null
        /\ clearPersistentAuth
        /\ userAuthenticated' = FALSE
        /\ out' = Result("signOut", Null, [kind |-> "ok", user |-> NoUser, err |-> ""])
     \/ /\ authInit
        /\ out' = Result("signOut", Null, Err("auth/network-request-failed"))
        /\ UNCHANGED <<currentUser, persistentAuth, userAuthenticated>>
  /\ UNCHANGED <<authInit, dbInit, accounts, store, rateLimited, pc, si, trace, siRet,
                 bgWrites, seedIdx, seedRet, seedLog, roleIn, roleOut>>

\* 216-244
signOutUser ==
  /\ Idle
  /\ calls' = calls + 1
  /\ explicitAuthAction' = TRUE
  /\ clearPersistentAuth
  /\ userAuthenticated' = FALSE
  /\ \/ /\ ~authInit
        /\ out' = Result("signOut", Null, [kind |-> "ok", user |-> NoUser, err |-> ""])
        /\ UNCHANGED currentUser
     \/ /\ authInit
        /\ currentUser' = Null
        /\ out' = Result("signOut", Null, [kind |-> "ok", user |-> NoUser, err |-> ""])
     \/ /\ authInit
        /\ out' = Result("signOut", Null, Err("auth/network-request-failed"))
        /\ UNCHANGED currentUser
  /\ UNCHANGED <<authInit, dbInit, accounts, store, rateLimited, pc, si, trace, siRet,
                 bgWrites, seedIdx, seedRet, seedLog, roleIn, roleOut>>

\* variant: a missing document gives null instead of the synthesized user
GetCurrentUserResultNullOnMissing(readOk) ==
  IF ~authInit THEN [kind |-> "null", user |-> NoUser, err |-> ""]
  ELSE IF currentUser = Null THEN [kind |-> "null", user |-> NoUser, err |-> ""]
  ELSE IF safeDoc(currentUser) = Null THEN Ok(SynthUser(currentUser))
  ELSE IF ~readOk THEN Err("unavailable")
  ELSE IF store[currentUser].exists THEN Ok(FoundUser(currentUser, store[currentUser]))
  ELSE [kind |-> "null", user |-> NoUser, err |-> ""]

\* what getCurrentUser returns or throws, given how the store read went
GetCurrentUserResult(readOk) ==
  IF ~authInit THEN [kind |-> "null", user |-> NoUser, err |-> ""]
  ELSE IF currentUser = Null THEN [kind |-> "null", user |-> NoUser, err |-> ""]
  ELSE IF safeDoc(currentUser) = Null THEN Ok(SynthUser(currentUser))
  ELSE IF ~readOk THEN Err("unavailable")
  ELSE IF store[currentUser].exists THEN Ok(FoundUser(currentUser, store[currentUser]))
  ELSE Ok(SynthUser(currentUser))

\* variant: getCurrentUser backfills a missing document, as signIn does
getCurrentUserBackfill ==
  /\ Idle
  /\ calls' = calls + 1
  /\ \E readOk \in BOOLEAN :
       /\ readOk => ReadAllowed
       /\ out' = Result("getCurrentUser", currentUser, GetCurrentUserResult(readOk))
       /\ store' = IF readOk /\ authInit /\ dbInit /\ currentUser # Null
                      /\ ~store[currentUser].exists
                     THEN SetDoc(store, currentUser, UserDoc(SynthUser(currentUser)))
                     ELSE store
  /\ UNCHANGED <<authInit, dbInit, accounts, currentUser, explicitAuthAction,
                 userAuthenticated, persistentAuth, rateLimited, pc, si, trace, siRet,
                 bgWrites, seedIdx, seedRet, seedLog, roleIn, roleOut>>

\* 246-301
getCurrentUser ==
  /\ Idle
  /\ calls' = calls + 1
  /\ \E readOk \in BOOLEAN :
       /\ readOk => ReadAllowed
       /\ out' = Result("getCurrentUser", currentUser, GetCurrentUserResult(readOk))
  /\ UNCHANGED <<authInit, dbInit, accounts, currentUser, store, explicitAuthAction,
                 userAuthenticated, persistentAuth, rateLimited, pc, si, trace, siRet,
                 bgWrites, seedIdx, seedRet, seedLog, roleIn, roleOut>>

\* Partial<User>: Undefined marks a field the partial does not carry
UpdateInputs ==
  { [id |-> Undefined, name |-> Undefined, email |-> Undefined, role |-> "admin"],
    [id |-> Undefined, name |-> "Renamed", email |-> Undefined, role |-> Undefined],
    NoUser }

MergeField(old, new) == IF new = Undefined THEN old ELSE new

\* variant: setDoc without { merge: true } replaces the document by the partial
MergeDocReplace(old, updates) ==
  [exists |-> TRUE, id |-> updates.id, name |-> updates.name, email |-> updates.email,
   role |-> updates.role, createdAt |-> Undefined]

\* variant: the write changes an existing document and never creates one
MergeDocExistingOnly(old, updates) ==
  IF ~old.exists THEN old
  ELSE [exists |-> TRUE,
        id |-> MergeField(old.id, updates.id),
        name |-> MergeField(old.name, updates.name),
        email |-> MergeField(old.email, updates.email),
        role |-> MergeField(old.role, updates.role),
        createdAt |-> old.createdAt]

\* setDoc(ref, updates, { merge: true })
MergeDoc(old, updates) ==
  [exists |-> TRUE,
   id |-> MergeField(old.id, updates.id),
   name |-> MergeField(old.name, updates.name),
   email |-> MergeField(old.email, updates.email),
   role |-> MergeField(old.role, updates.role),
   createdAt |-> old.createdAt]

\* 304-334
updateUserProfile(userId, updates) ==
  /\ Idle
  /\ calls' = calls + 1
  /\ \/ /\ safeDoc(userId) = Null
        /\ out' = UpdateResult(userId, updates,
                         Err("Failed to create document reference: Firestore not initialized"))
        /\ UNCHANGED store
     \/ /\ safeDoc(userId) # Null
        /\ out' = UpdateResult(userId, updates, Err("unavailable"))
        /\ UNCHANGED store
     \/ /\ safeDoc(userId) # Null
        /\ WriteAllowed(currentUser, userId)
        /\ store' = [store EXCEPT ![userId] = MergeDoc(store[userId], updates)]
        /\ \E readOk \in BOOLEAN :
             out' = UpdateResult(userId, updates,
                           IF ~readOk THEN Err("unavailable")
                           ELSE IF ~store'[userId].exists
                             THEN Err("User data not found after update")
                           ELSE Ok(FoundUser(userId, store'[userId])))
  /\ UNCHANGED <<authInit, dbInit, accounts, currentUser, explicitAuthAction,
                 userAuthenticated, persistentAuth, rateLimited, pc, si, trace, siRet,
                 bgWrites, seedIdx, seedRet, seedLog, roleIn, roleOut>>


(***************************************************************************)
(* setupInitialUsers / createInitialUser (part_001).  One action per       *)
(* iteration of the for loop.                                              *)
(***************************************************************************)
\* what one iteration did: whether createInitialUser was called, whether it
\* created the account, whether it wrote the document, and the code of the
\* error it ended with (Null without error)
Logged(attempted, account, doc, code) ==
  seedLog' = Append(seedLog, [attempted |-> attempted, account |-> account, doc |-> doc,
                              code |-> code])

\* the loop goes on to the next entry, or ends after the last one (108-109)
SeedAdvance ==
  IF seedIdx = Len(INITIAL_USERS)
    THEN seedIdx' = 0 /\ seedRet' = "completed"
    ELSE seedIdx' = seedIdx + 1 /\ seedRet' = seedRet

\* variant: an unexpected error is swallowed like 'already exists'
SeedCatchSwallow(code) ==
  IF code = "auth/too-many-requests"
    THEN rateLimited' = TRUE /\ seedIdx' = 0 /\ seedRet' = "completed"
  ELSE rateLimited' = rateLimited /\ SeedAdvance

\* variant: the rate limit sets the flag but the loop goes on (no break)
SeedCatchNoBreak(code) ==
  IF code = "auth/too-many-requests"
    THEN rateLimited' = TRUE /\ SeedAdvance
  ELSE IF code # "auth/email-already-in-use"
    THEN rateLimited' = rateLimited /\ seedIdx' = 0 /\ seedRet' = "error"
  ELSE rateLimited' = rateLimited /\ SeedAdvance

\* 98-106: the catch of the loop body
SeedCatch(code) ==
  IF code = "auth/too-many-requests"
    THEN rateLimited' = TRUE /\ seedIdx' = 0 /\ seedRet' = "completed"
  ELSE IF code # "auth/email-already-in-use"
    THEN rateLimited' = rateLimited /\ seedIdx' = 0 /\ seedRet' = "error"
  ELSE rateLimited' = rateLimited /\ SeedAdvance

\* 80-82
setupInitialUsers ==
  /\ Idle
  /\ calls' = calls + 1
  /\ seedIdx' = 1
  /\ seedRet' = "running"
  /\ seedLog' = <<>>
  /\ out' = Result("setupInitialUsers", Null, NoRet)
  /\ UNCHANGED <<authInit, dbInit, accounts, currentUser, store, explicitAuthAction,
                 userAuthenticated, persistentAuth, rateLimited, pc, si, trace, siRet,
                 bgWrites, roleIn, roleOut>>

\* variant: 'auth/email-already-in-use' is rethrown and ends the run
SeedExistingFatal == rateLimited' = rateLimited /\ seedIdx' = 0 /\ seedRet' = "error"

\* 71-74, 91-97: createInitialUser returns null for an account that exists and
\* the loop goes on
SeedExisting == rateLimited' = rateLimited /\ SeedAdvance

\* variant: an entry whose account exists gets its profile document written
ExistingAccountStoreBackfill(uid, user) ==
  store' = IF dbInit /\ WriteAllowed(currentUser, uid)
             THEN SetDoc(store, uid, UserDoc([id |-> uid, name |-> user.name,
                                              email |-> user.email, role |-> user.role]))
             ELSE store

\* 48, 69-74: createUserWithEmailAndPassword throws 'already in use' before
\* setDoc (61) is reached
ExistingAccountStore(uid, user) == store' = store

\* variant: the loop never looks at the flag
RateLimitFlagIgnored == FALSE

\* 86: localStorage.getItem('user-setup-rate-limited') === 'true'
RateLimitFlagSet == rateLimited

\* 83-107 with createInitialUser 41-78
SeedEntry ==
  LET user == INITIAL_USERS[seedIdx]
      uid == UidOf(user.email)
  IN
  /\ seedIdx > 0
  /\ \/ \* 86-89: the sticky flag is set
        /\ RateLimitFlagSet
        /\ seedIdx' = 0
        /\ seedRet' = "completed"
        /\ Logged(FALSE, FALSE, FALSE, Null)
        /\ UNCHANGED <<accounts, currentUser, store, rateLimited>>
     \/ \* createUserWithEmailAndPassword on a null auth throws an error without code
        /\ ~RateLimitFlagSet
        /\ ~authInit
        /\ SeedCatch(Undefined)
        /\ Logged(TRUE, FALSE, FALSE, Undefined)
        /\ UNCHANGED <<accounts, currentUser, store>>
     \/ \* 71-74: the account exists, createInitialUser returns null
        /\ ~RateLimitFlagSet
        /\ authInit
        /\ accounts[uid].exists
        /\ SeedExisting
        /\ Logged(TRUE, FALSE, FALSE, "auth/email-already-in-use")
        /\ ExistingAccountStore(uid, user)
        /\ UNCHANGED <<accounts, currentUser>>
     \/ \* account creation fails
        /\ ~RateLimitFlagSet
        /\ authInit
        /\ \E code \in CreateErrorCodes :
             SeedCatch(code) /\ Logged(TRUE, FALSE, FALSE, code)
        /\ UNCHANGED <<accounts, currentUser, store>>
     \/ \* account created, updateProfile(displayName) fails
        /\ ~RateLimitFlagSet
        /\ authInit
        /\ ~accounts[uid].exists
        /\ accounts' = [accounts EXCEPT ![uid] = [exists |-> TRUE, displayName |-> Null]]
        /\ currentUser' = uid
        /\ \E code \in CreateErrorCodes :
             SeedCatch(code) /\ Logged(TRUE, TRUE, FALSE, code)
        /\ UNCHANGED store
     \/ \* account created and named, the document write fails (doc(db) throws without db)
        /\ ~RateLimitFlagSet
        /\ authInit
        /\ ~accounts[uid].exists
        /\ accounts' = [accounts EXCEPT ![uid] = [exists |-> TRUE, displayName |-> user.name]]
        /\ currentUser' = uid
        /\ SeedCatch(IF dbInit THEN "unavailable" ELSE Undefined)
        /\ Logged(TRUE, TRUE, FALSE, IF dbInit THEN "unavailable" ELSE Undefined)
        /\ UNCHANGED store
     \/ \* 48-68: account and document created
        /\ ~RateLimitFlagSet
        /\ authInit
        /\ dbInit
        /\ ~accounts[uid].exists
        /\ accounts' = [accounts EXCEPT ![uid] = [exists |-> TRUE, displayName |-> user.name]]
        /\ currentUser' = uid
        /\ WriteAllowed(uid, uid)
        /\ store' = SetDoc(store, uid,
                           UserDoc([id |-> uid, name |-> user.name, email |-> user.email,
                                    role |-> user.role]))
        /\ SeedAdvance
        /\ Logged(TRUE, TRUE, TRUE, Null)
        /\ UNCHANGED rateLimited
  /\ UNCHANGED <<authInit, dbInit, explicitAuthAction, userAuthenticated, persistentAuth,
                 pc, si, trace, siRet, bgWrites, out, calls, roleIn, roleOut>>

(***************************************************************************)
(* Specification.                                                          *)
(***************************************************************************)
Next ==
  \/ \E email \in Emails : SignInBegin(email)
  \/ SignInAuthResult
  \/ SignInTokenResult
  \/ SignInReadResult
  \/ SignInWriteResult
  \/ SignInSaveCache
  \/ \E i \in 1..Len(bgWrites) : BgWriteComplete(i)
  \/ \E in \in SignUpInputs : signUp(in)
  \/ signOutUser
  \/ getCurrentUser
  \/ \E userId \in {u \in Uids : accounts[u].exists}, updates \in UpdateInputs :
       updateUserProfile(userId, updates)
  \/ setupInitialUsers
  \/ SeedEntry

Spec == Init /\ [][Next]_vars

(***************************************************************************)
(* determineRoleFromEmail on its own: the email is null, or the            *)
(* concatenation of at most MaxWords fragments.                            *)
(***************************************************************************)
RoleWords == {"admin", "sales", "ops", "manager", "ad", "min", "@x"}

RECURSIVE WordSeqs(_)
WordSeqs(n) ==
  IF n = 0 THEN {<<>>}
  ELSE LET shorter == WordSeqs(n - 1)
       IN shorter \cup {Append(ws, w) : ws \in {x \in shorter : Len(x) = n - 1}, w \in RoleWords}

RoleInputs ==
  {NoRoleInput} \cup {[isNull |-> FALSE, words |-> ws] : ws \in WordSeqs(MaxWords)}

RECURSIVE Flatten(_)
Flatten(ws) == IF ws = <<>> THEN <<>> ELSE Chars(Head(ws)) \o Flatten(Tail(ws))

RoleInit ==
  /\ InitMain
  /\ authInit /\ dbInit
  /\ roleIn \in RoleInputs
  /\ roleOut = "unset"

\* the call determineRoleFromEmail(roleIn)
RoleInfer ==
  /\ roleOut = "unset"
  /\ roleOut' = IF roleIn.isNull THEN determineRoleFromEmail(Null)
                ELSE RoleOfChars(Flatten(roleIn.words))
  /\ UNCHANGED <<authInit, dbInit, accounts, currentUser, store, explicitAuthAction,
                 userAuthenticated, persistentAuth, rateLimited, pc, si, trace, siRet,
                 bgWrites, seedIdx, seedRet, seedLog, roleIn, out, calls>>

RoleNext == RoleInfer

RoleSpec == RoleInit /\ [][RoleNext]_vars

TypeOK ==
  /\ currentUser \in Uids \cup {Null}
  /\ pc \in {"idle", "authenticating", "token_refresh", "profile_lookup", "persisting",
             "saving_cache"}
  /\ seedIdx \in 0..Len(INITIAL_USERS)
  /\ Len(bgWrites) <= MaxPendingWrites
  /\ calls \in 0..MaxCalls
  /\ Len(seedLog) <= Len(INITIAL_USERS)
  /\ roleOut \in Roles \cup {"unset"}


(***************************************************************************)
(* Properties.                                                             *)
(***************************************************************************)
Has(tr, ev) == \E i \in 1..Len(tr) : tr[i] = ev
Count(tr, ev) == Cardinality({i \in 1..Len(tr) : tr[i] = ev})
Before(tr, a, b) ==
  \A i \in 1..Len(tr) : tr[i] = b => \E j \in 1..(i - 1) : tr[j] = a

\* the name the Principal alone gives: display name, else local part, else "User"
FallbackName(uid) ==
  LET dn == accounts[uid].displayName
      local == IF EmailOf(uid) = Null THEN "" ELSE SplitAt0(EmailOf(uid))
  IN IF dn # Null /\ dn # "" THEN dn ELSE IF local # "" THEN local ELSE "User"

\* C1: a signIn whose authentication and token refresh succeeded and whose read
\* of users/{uid} failed has returned the profile synthesized from the Principal
\* (fallback name, inferred role), has issued a background write, and its
\* return value is the same whether that write is pending, succeeded or failed.
C1_ReadFailureStillSignsIn ==
  (pc = "idle" /\ si.read = "failed") =>
     /\ siRet.kind = "ok"
     /\ siRet.user = [id |-> si.uid, name |-> FallbackName(si.uid),
                      email |-> EmailOf(si.uid),
                      role |-> determineRoleFromEmail(EmailOf(si.uid))]
     /\ Count(trace, "setDoc:background") = 1
     /\ si.bg \in {"pending", "ok", "failed"}

C1_Witness ==
  /\ pc = "idle"
  /\ si.read = "failed"
  /\ siRet.kind = "ok"
  /\ si.bg = "failed"

\* C2: when the read succeeds with no document and the write of the synthesized
\* profile fails, signIn ends with an error: it returns no profile and does not
\* take the degraded path.
C2_WriteFailureFailsSignIn ==
  (si.read = "missing" /\ si.write = "failed") =>
     /\ pc = "idle"
     /\ siRet.kind = "error"
     /\ ~Has(trace, "setItem:user-authenticated-this-session")

\* C3: when signIn returns after reading an existing document, the returned
\* name, email and role are those of the stored document, and signIn issued no
\* store write and left the store as it was.
C3_FoundReturnsStoredFields ==
  [][ (pc = "profile_lookup" /\ pc' = "idle" /\ si'.read = "found") =>
        /\ siRet'.kind = "ok"
        /\ siRet'.user.id = si.uid
        /\ siRet'.user.name = store[si.uid].name
        /\ siRet'.user.email = store[si.uid].email
        /\ siRet'.user.role = store[si.uid].role
        /\ store' = store
        /\ bgWrites' = bgWrites
        /\ ~Has(trace', "setDoc")
        /\ ~Has(trace', "setDoc:background") ]_vars

C3_Witness ==
  /\ pc = "idle"
  /\ si.read = "found"
  /\ siRet.kind = "ok"
  /\ siRet.user.role # determineRoleFromEmail(EmailOf(si.uid))
  /\ siRet.user.name # FallbackName(si.uid)

\* C4: when signIn returns after a read that found no document and a write that
\* succeeded, the returned profile has the principal's id, the inferred role and
\* the fallback name, and the store holds that id, name, email and role under
\* users/{principal id}.
C4_MissingDocumentIsCreated ==
  [][ (pc = "persisting" /\ pc' = "idle" /\ si'.write = "ok") =>
        /\ siRet'.kind = "ok"
        /\ siRet'.user = [id |-> si.uid, name |-> FallbackName(si.uid),
                          email |-> EmailOf(si.uid),
                          role |-> determineRoleFromEmail(EmailOf(si.uid))]
        /\ store'[si.uid].exists
        /\ store'[si.uid].id = si.uid
        /\ store'[si.uid].name = siRet'.user.name
        /\ store'[si.uid].email = siRet'.user.email
        /\ store'[si.uid].role = siRet'.user.role ]_vars

C4_Witness ==
  /\ pc = "idle"
  /\ si.read = "missing"
  /\ si.write = "ok"
  /\ siRet.kind = "ok"
  /\ accounts[si.uid].displayName = Null
  /\ siRet.user.name = SplitAt0(si.email)
  /\ siRet.user.role = "operations_manager"
  /\ store[si.uid].exists

\* C5: when the provider rejects the authentication, signIn throws the message
\* fixed by the provider's error code (one of six), having called the provider
\* once and the store not at all.
C5_AuthFailureMapsToSixOutcomes ==
  (pc = "idle" /\ si.code # Null) =>
     /\ siRet.kind = "error"
     /\ siRet.err =
          (IF si.code = "auth/invalid-credential"
             THEN "Invalid email or password. Please check your credentials and try again."
           ELSE IF si.code = "auth/user-not-found"
             THEN "No account found with this email address."
           ELSE IF si.code = "auth/wrong-password"
             THEN "Incorrect password. Please try again."
           ELSE IF si.code = "auth/too-many-requests"
             THEN "Too many failed login attempts. Please try again later."
           ELSE IF si.code = "auth/user-disabled"
             THEN "This account has been disabled. Please contact support."
           ELSE "An error occurred during sign in. Please try again.")
     /\ Count(trace, "signInWithEmailAndPassword") = 1
     /\ ~Has(trace, "getDoc")
     /\ ~Has(trace, "setDoc")
     /\ ~Has(trace, "setDoc:background")
     /\ si.read = "none" /\ si.write = "none" /\ si.bg = "none"

C5_Witness ==
  /\ pc = "idle"
  /\ si.code = "auth/user-disabled"
  /\ siRet.kind = "error"
  /\ accounts[UidOf(si.email)].exists

\* C6: in every signIn the explicit-auth-action marker is written before the
\* provider is called, and the token refresh has resolved before a store read
\* is issued.  (That the background write may still be in flight after signIn
\* returned is the state C6_Witness.)
C6_MarkerThenProviderThenRefreshThenRead ==
  /\ Before(trace, "setItem:explicit-auth-action", "signInWithEmailAndPassword")
  /\ Before(trace, "signInWithEmailAndPassword", "getIdToken")
  /\ Before(trace, "getIdToken:resolved", "getDoc")
  /\ Before(trace, "getIdToken:resolved", "setDoc:background")
  /\ (Has(trace, "signInWithEmailAndPassword") => explicitAuthAction)
  /\ (pc \in {"profile_lookup", "persisting"} => Has(trace, "getIdToken:resolved"))

C6_Witness ==
  /\ pc = "idle"
  /\ siRet.kind = "ok"
  /\ Has(trace, "getDoc")
  /\ si.bg = "pending"
  /\ \E i \in 1..Len(bgWrites) : bgWrites[i].mine


\* the step is a call of op
CallOf(op) == calls' = calls + 1 /\ out'.op = op

\* C7 as stated: with a Principal authenticated getCurrentUser resolves a
\* profile in every store condition, a failed store read included.
C7_AlwaysResolvesWhenAuthenticated ==
  (out.op = "getCurrentUser" /\ out.arg # Null) => out.kind = "ok"

\* C7 as amended: getCurrentUser returns null exactly when no Principal is
\* authenticated; with a Principal it returns the stored fields when the read
\* finds a document, the profile synthesized from the Principal when the read
\* finds none or there is no store handle, and it throws the read error when
\* the store read fails.
C7_ResolvesUnlessReadFails ==
  [][ CallOf("getCurrentUser") =>
        /\ out'.arg = currentUser
        /\ (out'.kind = "null") = (currentUser = Null)
        /\ (out'.kind = "error" => dbInit /\ out'.err = "unavailable")
        /\ (out'.kind = "ok" =>
              out'.user =
                IF dbInit /\ store[currentUser].exists
                  THEN [id |-> currentUser, name |-> store[currentUser].name,
                        email |-> store[currentUser].email,
                        role |-> store[currentUser].role]
                  ELSE [id |-> currentUser, name |-> FallbackName(currentUser),
                        email |-> IF EmailOf(currentUser) = Null THEN ""
                                  ELSE EmailOf(currentUser),
                        role |-> determineRoleFromEmail(EmailOf(currentUser))]) ]_vars

C7_Witness ==
  /\ out.op = "getCurrentUser"
  /\ out.arg # Null
  /\ out.kind = "error"
  /\ store[out.arg].exists

\* C8: a call of getCurrentUser, whatever it returns or throws, leaves the
\* document store, both session markers and the persistent cache unchanged.
C8_GetCurrentUserIsReadOnly ==
  [][ CallOf("getCurrentUser") =>
        UNCHANGED <<store, bgWrites, explicitAuthAction, userAuthenticated,
                    persistentAuth>> ]_vars

C8_Witness ==
  /\ out.op = "getCurrentUser"
  /\ out.kind = "ok"
  /\ dbInit
  /\ out.arg # Null
  /\ ~store[out.arg].exists
  /\ out.user.role = determineRoleFromEmail(EmailOf(out.arg))

\* C9: the role of a document that exists changes only in a call of
\* updateUserProfile.
C9_RoleChangesOnlyByUpdate ==
  [][ (\E u \in Uids : store[u].exists /\ store'[u].role # store[u].role)
        => CallOf("updateUserProfile") ]_vars

\* C10: every document stored under users/{k} carries id = k.
C10_StoredIdEqualsKey ==
  \A k \in Uids : store[k].exists => store[k].id = k


\* C11: updateUserProfile on an existing document either leaves the store as it
\* was (the call failed before the write) or merges: a field the partial carries
\* takes the new value, every other field and every other document keeps its
\* value; a profile returned has the given id and the name, email and role of
\* the document as it is after the write.
C11_UpdateMerges ==
  [][ (CallOf("updateUserProfile") /\ store[out'.arg].exists) =>
        LET k == out'.arg
            p == out'.updates
        IN \/ store' = store /\ out'.kind = "error"
           \/ /\ store'[k].exists
              /\ store'[k].name = (IF p.name = Undefined THEN store[k].name ELSE p.name)
              /\ store'[k].email = (IF p.email = Undefined THEN store[k].email ELSE p.email)
              /\ store'[k].role = (IF p.role = Undefined THEN store[k].role ELSE p.role)
              /\ store'[k].id = (IF p.id = Undefined THEN store[k].id ELSE p.id)
              /\ store'[k].createdAt = store[k].createdAt
              /\ \A u \in Uids \ {k} : store'[u] = store[u]
              /\ (out'.kind = "ok" =>
                    out'.user = [id |-> k, name |-> store'[k].name,
                                 email |-> store'[k].email, role |-> store'[k].role]) ]_vars

C11_Witness ==
  /\ out.op = "updateUserProfile"
  /\ out.kind = "ok"
  /\ out.updates.role = "admin"
  /\ out.updates.name = Undefined
  /\ out.user.role = "admin"
  /\ out.user.name = "Pat"
  /\ out.user.email = "ops@b.co"
  /\ store[out.arg].role = "admin"
  /\ store[out.arg].id = out.arg


RateLimitCode == "auth/too-many-requests"
LastLogged == seedLog[Len(seedLog)]

\* C12: when an entry of a seeder run fails with the rate-limit code, the run is
\* over at that entry without error and with the sticky flag set: every entry
\* before it was processed (created or already there), and no entry after it is
\* ever attempted in that run.
C12_RateLimitHaltsRun ==
  (seedLog # <<>> /\ LastLogged.code = RateLimitCode) =>
     /\ seedIdx = 0
     /\ seedRet = "completed"
     /\ rateLimited
     /\ \A i \in 1..(Len(seedLog) - 1) :
          /\ seedLog[i].attempted
          /\ seedLog[i].code \in {Null, "auth/email-already-in-use"}
          /\ accounts[UidOf(INITIAL_USERS[i].email)].exists

C12_Witness ==
  /\ Len(seedLog) = 2
  /\ seedLog[1].doc
  /\ seedLog[2].code = RateLimitCode
  /\ ~accounts["u3"].exists
  /\ ~accounts["u4"].exists
  /\ rateLimited
  /\ seedRet = "completed"
  /\ seedIdx = 0


\* C13: the sticky flag, once set, is never cleared, and a seeder run that finds
\* it set ends at its first entry without error, having created no account and
\* written no document.
C13_StickyFlagShortCircuits ==
  [][ /\ (rateLimited => rateLimited')
      /\ ((rateLimited /\ seedIdx > 0) => seedIdx = 1 /\ seedLog = <<>>)
      /\ ((rateLimited /\ seedIdx > 0 /\ seedIdx' # seedIdx) =>
            /\ seedIdx' = 0
            /\ seedRet' = "completed"
            /\ seedLog' = <<[attempted |-> FALSE, account |-> FALSE, doc |-> FALSE,
                             code |-> Null]>>
            /\ UNCHANGED <<accounts, store, currentUser>>) ]_vars

C13_Witness ==
  /\ rateLimited
  /\ seedIdx = 0
  /\ seedRet = "completed"
  /\ Len(seedLog) = 1
  /\ ~seedLog[1].attempted
  /\ \A i \in 1..Len(INITIAL_USERS) : ~accounts[UidOf(INITIAL_USERS[i].email)].exists


SeededUids == {UidOf(INITIAL_USERS[i].email) : i \in 1..Len(INITIAL_USERS)}
AllSeededExist == \A u \in SeededUids : accounts[u].exists
AlreadyExistsCode == "auth/email-already-in-use"

\* C14: once every listed account exists, an iteration of a seeder run creates
\* no account and writes or changes no document; an entry that hits 'already
\* exists' does not end the run with an error, and a run in which every entry
\* hits 'already exists' completes without error.
C14_SecondRunIsNoOp ==
  [][ /\ ((AllSeededExist /\ seedIdx > 0 /\ seedLog' # seedLog) =>
            /\ UNCHANGED <<accounts, store>>
            /\ (seedLog'[Len(seedLog')].code = AlreadyExistsCode =>
                  /\ seedRet' # "error"
                  /\ seedIdx' = (IF seedIdx = Len(INITIAL_USERS) THEN 0 ELSE seedIdx + 1)))
      /\ ((seedIdx' = 0 /\ Len(seedLog') = Len(INITIAL_USERS)
             /\ \A i \in 1..Len(seedLog') : seedLog'[i].code = AlreadyExistsCode)
            => seedRet' = "completed") ]_vars

C14_Witness ==
  /\ seedIdx = 0
  /\ seedRet = "completed"
  /\ Len(seedLog) = Len(INITIAL_USERS)
  /\ \A i \in 1..Len(seedLog) : seedLog[i].code = AlreadyExistsCode
  /\ \A i \in 1..Len(INITIAL_USERS) :
       LET u == UidOf(INITIAL_USERS[i].email)
       IN /\ store[u].exists
          /\ store[u].role = INITIAL_USERS[i].role
          /\ store[u].name = INITIAL_USERS[i].name
          /\ accounts[u].displayName = INITIAL_USERS[i].name


\* C15: a seeder run has raised an error exactly when the last entry it reached
\* failed with a code other than 'already exists' and 'rate-limited'; the run
\* then stopped at that entry, and the sticky flag is not set.
C15_ErrorIffUnexpectedCode ==
  /\ (seedRet = "error") =
       (/\ seedLog # <<>>
        /\ LastLogged.attempted
        /\ LastLogged.code \notin {Null, AlreadyExistsCode, RateLimitCode})
  /\ (seedRet = "error" => seedIdx = 0 /\ ~rateLimited)
  /\ \A i \in 1..(Len(seedLog) - 1) : seedLog[i].code \in {Null, AlreadyExistsCode}

C15_Witness ==
  /\ seedRet = "error"
  /\ Len(seedLog) = 2
  /\ seedLog[1].doc
  /\ seedLog[2].account
  /\ seedLog[2].code = "unavailable"
  /\ ~accounts["u3"].exists
  /\ ~accounts["u4"].exists
  /\ ~rateLimited

\* C16: role inference returns one of the four roles for every email, decided
\* by which of "admin", "sales", "ops", "manager" the email contains: operator
\* for an absent or empty email; admin whenever "admin" occurs, whatever else
\* occurs; sales_agent when "sales" occurs without "admin"; operations_manager
\* when "ops" or "manager" occurs without "admin" and "sales"; operator when
\* none occurs.
C16_RoleInferenceFirstMatch ==
  roleOut # "unset" =>
    LET cs == Flatten(roleIn.words)
        hasAdmin == IncludesChars(cs, Chars("admin"))
        hasSales == IncludesChars(cs, Chars("sales"))
        hasOps == IncludesChars(cs, Chars("ops"))
        hasManager == IncludesChars(cs, Chars("manager"))
    IN /\ roleOut \in {"admin", "sales_agent", "operations_manager", "operator"}
       /\ (roleIn.isNull \/ cs = <<>>) => roleOut = "operator"
       /\ ~roleIn.isNull =>
            /\ hasAdmin => roleOut = "admin"
            /\ (hasSales /\ ~hasAdmin) => roleOut = "sales_agent"
            /\ ((hasOps \/ hasManager) /\ ~hasAdmin /\ ~hasSales) =>
                 roleOut = "operations_manager"
            /\ (~hasAdmin /\ ~hasSales /\ ~hasOps /\ ~hasManager) => roleOut = "operator"

C16_Witness ==
  /\ roleOut = "admin"
  /\ roleIn.words = <<"sales", "ops", "admin">>

\* C17: within a signIn call the user-authenticated-this-session marker and the
\* persistent cache change only on the degraded path; a signIn that returns
\* through the degraded path returns with the marker set and the cache equal to
\* the returned profile; a signIn that returns the stored profile, or the
\* profile it has just written for a missing document, has not gone through the
\* degraded path and returns with the marker and the cache as they were.
SessionMarkerSet == "setItem:user-authenticated-this-session"

C17_MarkerAndCacheIffDegraded ==
  [][/\ ((pc # "idle" \/ pc' # "idle") /\ userAuthenticated' # userAuthenticated) =>
          (pc' = "saving_cache" /\ userAuthenticated' /\ ~Has(trace, SessionMarkerSet)
             /\ Has(trace', SessionMarkerSet))
     /\ ((pc # "idle" \/ pc' # "idle") /\ persistentAuth' # persistentAuth) =>
          (pc = "saving_cache" /\ ~Has(trace, "savePersistentAuth")
             /\ Has(trace', "savePersistentAuth"))
     /\ (pc # "idle" /\ pc' = "idle" /\ siRet'.kind = "ok") =>
          /\ (pc = "saving_cache") = Has(trace', SessionMarkerSet)
          /\ (pc = "saving_cache") = Has(trace', "savePersistentAuth")
          /\ pc = "saving_cache" =>
               /\ userAuthenticated'
               /\ persistentAuth' = siRet'.user
               /\ siRet'.user = SynthUser(si'.uid)
          /\ (si'.read = "found" \/ (si'.read = "missing" /\ si'.write = "ok")) =>
               /\ pc # "saving_cache"
               /\ userAuthenticated' = userAuthenticated
               /\ persistentAuth' = persistentAuth
    ]_vars

C17_Witness ==
  /\ pc = "idle"
  /\ out.op = "signIn"
  /\ siRet.kind = "ok"
  /\ si.read = "failed"
  /\ Has(trace, SessionMarkerSet)
  /\ Has(trace, "savePersistentAuth")
  /\ userAuthenticated
  /\ persistentAuth = siRet.user

\* a later signIn returned the stored profile and left an earlier cache entry alone
C17_UnchangedReached ==
  /\ pc = "idle"
  /\ out.op = "signIn"
  /\ siRet.kind = "ok"
  /\ si.read = "found"
  /\ userAuthenticated
  /\ persistentAuth # NoUser
  /\ persistentAuth # siRet.user

\* C18: every signOutUser call, whether the provider's signOut succeeded,
\* failed or was skipped because the provider is not initialized, ends with
\* explicit-auth-action set, the persistent cache cleared and the
\* user-authenticated-this-session marker absent; the Principal stays
\* authenticated when the provider's signOut failed or was skipped.
C18_SignOutClearsBeforeProvider ==
  [][CallOf("signOut") =>
       /\ explicitAuthAction'
       /\ persistentAuth' = NoUser
       /\ ~userAuthenticated'
       /\ out'.kind \in {"ok", "error"}
       /\ (out'.kind = "error" \/ ~authInit) => currentUser' = currentUser
       /\ (out'.kind = "ok" /\ authInit) => currentUser' = Null
    ]_vars

C18_Witness ==
  /\ out.op = "signOut"
  /\ out.kind = "error"
  /\ currentUser # Null
  /\ Has(trace, SessionMarkerSet)
  /\ Has(trace, "savePersistentAuth")
  /\ ~userAuthenticated
  /\ persistentAuth = NoUser
  /\ explicitAuthAction

\* C19: a step of the seeder's loop writes the store only when it creates the
\* entry's provider account in that same step, and then only that entry's
\* document; a step on an entry whose account exists writes nothing and, when
\* the provider answers 'already in use', does not end the run in error; so no
\* step of the seeder gives a document to an account that has none.
SeedStep == seedIdx > 0 /\ Len(seedLog') = Len(seedLog) + 1

C19_SeederWritesOnlyWithNewAccount ==
  [][SeedStep =>
       LET uid == UidOf(INITIAL_USERS[seedIdx].email)
           entry == seedLog'[Len(seedLog')]
       IN /\ store' # store =>
               /\ entry.account /\ entry.doc
               /\ ~accounts[uid].exists /\ accounts'[uid].exists
               /\ \A u \in Uids \ {uid} : store'[u] = store[u]
          /\ accounts[uid].exists =>
               /\ store' = store
               /\ ~entry.account /\ ~entry.doc
               /\ entry.code = AlreadyExistsCode => seedRet' # "error"
          /\ \A u \in Uids : (accounts[u].exists /\ ~store[u].exists) => ~store'[u].exists
    ]_vars

\* an earlier run created john's account and failed to write its document; a
\* later run went through all four entries and completed, john still without one
C19_Witness ==
  /\ seedRet = "completed"
  /\ Len(seedLog) = Len(INITIAL_USERS)
  /\ seedLog[2].code = AlreadyExistsCode
  /\ accounts["u2"].exists
  /\ accounts["u2"].displayName = INITIAL_USERS[2].name
  /\ ~store["u2"].exists

\* C20: no updateUserProfile call ends with 'User data not found after update'
\* while the document is there after the write; a call for an id without a
\* stored document either fails before it writes, or creates a document whose
\* fields are exactly those of the partial (the others undefined) and changes no
\* other document; after that write it fails only if the read-back itself
\* fails, and a returned profile has the given id and the partial's name, email
\* and role, undefined where the partial carries none.
NotFoundAfterUpdate == "User data not found after update"

C20_UpdateCreatesFromPartial ==
  [][CallOf("updateUserProfile") =>
       LET k == out'.arg
           p == out'.updates
       IN /\ out'.err = NotFoundAfterUpdate =>
               (out'.kind = "error" /\ store' # store /\ ~store'[k].exists)
          /\ ~store[k].exists =>
               \/ store' = store /\ out'.kind = "error" /\ out'.err # NotFoundAfterUpdate
               \/ /\ store'[k] = [exists |-> TRUE, id |-> p.id, name |-> p.name,
                                   email |-> p.email, role |-> p.role,
                                   createdAt |-> Undefined]
                  /\ \A u \in Uids \ {k} : store'[u] = store[u]
                  /\ out'.kind \in {"ok", "error"}
                  /\ out'.kind = "error" => out'.err = "unavailable"
                  /\ out'.kind = "ok" =>
                       out'.user = [id |-> k, name |-> p.name, email |-> p.email,
                                    role |-> p.role]
    ]_vars

C20_Witness ==
  /\ out.op = "updateUserProfile"
  /\ out.kind = "ok"
  /\ out.updates.name = "Renamed"
  /\ out.user = [id |-> out.arg, name |-> "Renamed", email |-> Undefined, role |-> Undefined]
  /\ store[out.arg] = [exists |-> TRUE, id |-> Undefined, name |-> "Renamed",
                        email |-> Undefined, role |-> Undefined, createdAt |-> Undefined]

\* the empty partial creates an empty document, which is found by the read-back
C20_EmptyPartialReached ==
  /\ out.op = "updateUserProfile"
  /\ out.kind = "ok"
  /\ out.updates = NoUser
  /\ out.user = [id |-> out.arg, name |-> Undefined, email |-> Undefined, role |-> Undefined]
  /\ store[out.arg].exists
  /\ store[out.arg].name = Undefined

====
